---- MODULE Spec2Model ----
(***************************************************************************)
(* Background-removal service: the synchronous batch endpoint              *)
(* (app/routers/background_remover.py), the asynchronous submission        *)
(* endpoint and the status poll (app/routers/background_remover_parallel   *)
(* .py), the flow the workflow engine runs (workflows/flows/                *)
(* background_remover.py) and the archive builder (app/helpers/image.py).  *)
(*                                                                         *)
(* Text (URLs, content types, file names) is a sequence of one-character   *)
(* strings, so that parsing and sanitising are computed and not assumed.   *)
(* Image bytes are opaque tokens ("RAW_A", "PNG_A", ...).                  *)
(***************************************************************************)
EXTENDS Integers, Sequences, FiniteSets, TLC

VARIABLES
    endpoint,            \* which handler serves the request of this behaviour
    image_urls,          \* request.image_urls, each already str(url)
    remote,              \* what the remote services may answer in this behaviour
    pc,                  \* position of the request handler
    task,                \* per item: position of process_image_for_batch
    image_bytes,         \* per item: local image_bytes (None until fetched)
    processed_image,     \* per item: local processed_image (None until removed)
    results,             \* per item: the slot asyncio.gather fills
    response,            \* the HTTP response of the handler (NoResponse until sent)
    fetch_calls,         \* number of fetch_image calls issued
    remove_calls,        \* number of remove_background calls issued
    zip_calls,           \* number of create_zip_archive calls made by the handler
    deployments,         \* run_deployment calls received by the workflow engine
    processed_images,    \* argument of a direct create_zip_archive call
    archive,             \* what that call returned (NotBuilt until it returns)
    flow_run,            \* the flow run the workflow engine holds
    task_runs,           \* the task runs of that flow run, in submission order
    flow_pc,             \* position of the flow body
    awaited,             \* index of the future the flow's loop waits for
    successful_results,  \* local list of batch_background_removal_flow
    failed_results,      \* local list of batch_background_removal_flow
    polls,               \* the last two status polls of the handle polled
                         \* last, since the engine's state last changed
    call,                \* a direct call of a remote operation: function, reply
    call_result          \* what that call returned or raised

\* the state of the HTTP handlers
handler_vars == <<endpoint, image_urls, remote, pc, task, image_bytes,
                  processed_image, results, response, fetch_calls,
                  remove_calls, zip_calls, deployments, processed_images,
                  archive>>

\* the state of the workflow engine and of the flow it runs
engine_vars == <<flow_run, task_runs, flow_pc, awaited, successful_results,
                 failed_results, polls>>

vars == <<endpoint, image_urls, remote, pc, task, image_bytes, processed_image,
          results, response, fetch_calls, remove_calls, zip_calls, deployments,
          processed_images, archive, flow_run, task_runs, flow_pc, awaited,
          successful_results, failed_results, polls, call,
          call_result>>

\* the state of a direct call of fetch_image or remove_background
call_vars == <<call, call_result>>

----------------------------------------------------------------------------
(* Bounds of the model *)

\* longest batch whose URLs are drawn freely
MaxBatch == 3
\* how far beyond MAX_BATCH_SIZE the long batches go
MaxOver == 2
\* longest argument list of a direct create_zip_archive call
MaxPairs == 3

\* URLs of a batch handed to the flow
MaxTasks == 2

\* flow ids in one results poll
MaxHandles == 2

\* the largest list of task runs the progress block is computed for directly
MaxRuns == 3

----------------------------------------------------------------------------
(* Program constants *)

MAX_BATCH_SIZE == 10
HTTP_200_OK == 200
HTTP_202_ACCEPTED == 202
HTTP_400_BAD_REQUEST == 400
HTTP_404_NOT_FOUND == 404
HTTP_500_INTERNAL_SERVER_ERROR == 500

DEFAULT_IMAGE_NAME == <<"i","m","a","g","e">>
PNG_EXTENSION == <<".","p","n","g">>
SAFE_FILENAME_CHARS == {".", "_", "-"}
MEDIA_TYPE_ZIP == "application/zip"

\* Python's None
None == "None"

----------------------------------------------------------------------------
(* Text helpers: what the Python string methods used by the code compute *)

Digits == <<"0","1","2","3","4","5","6","7","8","9">>

Letters ==
    {"a","b","c","d","e","f","g","h","i","j","k","l","m","n","o","p","q","r",
     "s","t","u","v","w","x","y","z",
     "A","B","C","D","E","F","G","H","I","J","K","L","M","N","O","P","Q","R",
     "S","T","U","V","W","X","Y","Z"}

\* str.isalnum() of one character
IsAlnum(c) == c \in Letters \/ c \in {Digits[k] : k \in 1..10}

SetMin(S) == CHOOSE m \in S : \A k \in S : m <= k

SetMax(S) == CHOOSE m \in S : \A k \in S : m >= k

\* s.find for any character of C: the first position, or Len(s) + 1
FirstIn(s, C) ==
    LET I == {k \in 1..Len(s) : s[k] \in C}
    IN  IF I = {} THEN Len(s) + 1 ELSE SetMin(I)

\* s.rfind(c): the last position, or 0
LastOf(s, c) ==
    LET I == {k \in 1..Len(s) : s[k] = c}
    IN  IF I = {} THEN 0 ELSE SetMax(I)

StartsWith(s, p) == Len(s) >= Len(p) /\ SubSeq(s, 1, Len(p)) = p

EndsWith(s, p) ==
    Len(s) >= Len(p) /\ SubSeq(s, Len(s) - Len(p) + 1, Len(s)) = p

\* str(n) of a non-negative integer
RECURSIVE ToStr(_)
ToStr(n) ==
    IF n < 10 THEN <<Digits[n + 1]>>
    ELSE ToStr(n \div 10) \o <<Digits[(n % 10) + 1]>>

----------------------------------------------------------------------------
(* urllib.parse.urlparse(url).path for scheme://netloc/path;params?query#frag *)

\* what follows "scheme:" (the whole text when there is no scheme)
AfterScheme(url) ==
    LET c == FirstIn(url, {":"})
    IN  IF c > Len(url) THEN url ELSE SubSeq(url, c + 1, Len(url))

\* what follows the netloc: the netloc runs up to the first of / ? #
AfterNetloc(url) ==
    LET rest == AfterScheme(url)
    IN  IF StartsWith(rest, <<"/", "/">>)
        THEN LET after == SubSeq(rest, 3, Len(rest))
                 d == FirstIn(after, {"/", "?", "#"})
             IN  SubSeq(after, d, Len(after))
        ELSE rest

\* urlsplit: the fragment is cut at the first #, then the query at the first ?
SplitPath(url) ==
    LET rest == AfterNetloc(url)
        noFragment == SubSeq(rest, 1, FirstIn(rest, {"#"}) - 1)
    IN  SubSeq(noFragment, 1, FirstIn(noFragment, {"?"}) - 1)

\* _splitparams: the params are cut at the first ; of the last path segment
UrlPath(url) ==
    LET path == SplitPath(url)
        slash == LastOf(path, "/")
        tail == SubSeq(path, slash + 1, Len(path))
        semi == FirstIn(tail, {";"})
    IN  IF semi > Len(tail) THEN path ELSE SubSeq(path, 1, slash + semi - 1)

\* path.split('/')[-1]
LastSegment(path) == SubSeq(path, LastOf(path, "/") + 1, Len(path))

----------------------------------------------------------------------------
(* app/helpers/image.py: create_zip_archive *)

\* a join that keeps every character
KeepCharAny(c) == TRUE

\* the characters the sanitising join keeps
KeepChar(c) == IsAlnum(c) \/ c \in SAFE_FILENAME_CHARS

Sanitise(name) == SelectSeq(name, KeepChar)

\* a file name built from the URL alone
RawFilenameWithoutIndex(i, url) ==
    LET segment == LastSegment(UrlPath(url))
    IN  <<"i","m","a","g","e","_">>
        \o (IF segment = <<>> THEN DEFAULT_IMAGE_NAME ELSE segment)
        \o PNG_EXTENSION

\* the f-string of line 95: image_{i + 1}_{segment or DEFAULT_IMAGE_NAME}.png
RawFilename(i, url) ==
    LET segment == LastSegment(UrlPath(url))
    IN  <<"i","m","a","g","e","_">> \o ToStr(i + 1) \o <<"_">>
        \o (IF segment = <<>> THEN DEFAULT_IMAGE_NAME ELSE segment)
        \o PNG_EXTENSION

\* the file name written for the pair at enumerate index i (0-based)
Filename(i, url) ==
    LET filename == Sanitise(RawFilename(i, url))
    IN  IF EndsWith(filename, PNG_EXTENSION) THEN filename
        ELSE filename \o PNG_EXTENSION

\* a loop without the "is not None" test
HasPayloadAlways(pair) == TRUE

\* whether the loop writes an entry for this pair
HasPayload(pair) == pair[2] # None

\* the entries written for the pairs at positions k..Len, in order
RECURSIVE ZipEntriesFrom(_, _)
ZipEntriesFrom(pairs, k) ==
    IF k > Len(pairs) THEN <<>>
    ELSE (IF HasPayload(pairs[k])
          THEN <<[name |-> Filename(k - 1, pairs[k][1]), data |-> pairs[k][2]]>>
          ELSE <<>>)
         \o ZipEntriesFrom(pairs, k + 1)

\* the archive, as the ordered list of its entries (name and bytes)
create_zip_archive(pairs) == ZipEntriesFrom(pairs, 1)

----------------------------------------------------------------------------
(* The remote world: the image hosts and the segmentation service *)

UrlA == <<"h","t","t","p",":","/","/","e","/","a",".","j","p","g","?","i","d","=","1">>
UrlB == <<"h","t","t","p",":","/","/","e","/","a",".","j","p","g","?","i","d","=","2">>
UrlC == <<"h","t","t","p",":","/","/","e","/","b",".","j","p","g">>

Urls == {UrlA, UrlB, UrlC}

UrlList == <<UrlA, UrlB, UrlC>>

\* the bytes the host serves at a URL
ImageAt(url) ==
    IF url = UrlA THEN "RAW_A" ELSE IF url = UrlB THEN "RAW_B" ELSE "RAW_C"

\* the bytes the segmentation service answers for an image
Segmented(raw) ==
    IF raw = "RAW_A" THEN "PNG_A" ELSE IF raw = "RAW_B" THEN "PNG_B" ELSE "PNG_C"

ImagePng == <<"i","m","a","g","e","/","p","n","g">>

TextHtml == <<"t","e","x","t","/","h","t","m","l">>

\* an HTTP exchange: a transport failure, or a response
HttpReply(failed, status, ctype, content) ==
    [failed |-> failed, status |-> status, content_type |-> ctype,
     content |-> content]

\* what client.get(url) may give: "healthy" hosts always serve the image
FetchReplies(url, world) ==
    {HttpReply(FALSE, 200, ImagePng, ImageAt(url))}
    \cup (IF world = "healthy" THEN {}
          ELSE {HttpReply(FALSE, 200, TextHtml, "HTML"),
                HttpReply(FALSE, 200, <<>>, ImageAt(url)),
                HttpReply(FALSE, 404, TextHtml, "HTML"),
                HttpReply(TRUE, 0, <<>>, None)})

\* what client.post(.../segment) may give
SegmentReplies(raw, world) ==
    {HttpReply(FALSE, 200, ImagePng, Segmented(raw))}
    \cup (IF world = "healthy" THEN {}
          ELSE {HttpReply(FALSE, 402, TextHtml, "HTML"),
                HttpReply(TRUE, 0, <<>>, None)})

\* httpx: response.raise_for_status() raises unless the status is 2xx
RaisesForStatus(status) == ~(status >= 200 /\ status < 300)

\* a call that returned a value
Returned(value) == [raised |-> None, status |-> 0, value |-> value]

\* a call that raised
Raised(exc, status) == [raised |-> exc, status |-> status, value |-> None]

\* a fetch that looks at the content type before the status
fetch_imageChecksTypeFirst(reply) ==
    IF reply.failed THEN Raised("RequestError", 0)
    ELSE IF ~StartsWith(reply.content_type, <<"i","m","a","g","e","/">>)
    THEN Raised("HTTPException", HTTP_400_BAD_REQUEST)
    ELSE IF RaisesForStatus(reply.status)
    THEN Raised("HTTPStatusError", reply.status)
    ELSE Returned(reply.content)

\* app/helpers/image.py: fetch_image, applied to what client.get gave
fetch_image(reply) ==
    IF reply.failed THEN Raised("RequestError", 0)
    ELSE IF RaisesForStatus(reply.status)
    THEN Raised("HTTPStatusError", reply.status)
    ELSE IF ~StartsWith(reply.content_type, <<"i","m","a","g","e","/">>)
    THEN Raised("HTTPException", HTTP_400_BAD_REQUEST)
    ELSE Returned(reply.content)

\* a client without raise_for_status: the body of an error response is
\* returned as if it were the image
remove_backgroundReturnsErrorBody(reply) ==
    IF reply.failed THEN Raised("HTTPException", HTTP_500_INTERNAL_SERVER_ERROR)
    ELSE Returned(reply.content)

\* app/clients/photoroom.py: remove_background, applied to what client.post gave
remove_background(reply) ==
    IF reply.failed THEN Raised("HTTPException", HTTP_500_INTERNAL_SERVER_ERROR)
    ELSE IF RaisesForStatus(reply.status)
    THEN Raised("HTTPException", reply.status)
    ELSE Returned(reply.content)

----------------------------------------------------------------------------
(* HTTP responses of the handlers *)

NoResponse == [status |-> 0, media_type |-> "", content |-> <<>>]

\* raise HTTPException(status_code, detail)
HttpError(status, detail) ==
    [status |-> status, media_type |-> "application/json", content |-> detail]

\* size checks that only reject the empty batch
BatchSizeErrorNoLimit(urls) ==
    IF Len(urls) = 0
    THEN HttpError(HTTP_400_BAD_REQUEST, "At least one image URL is required")
    ELSE NoResponse

\* a limit check that already refuses a batch of exactly MAX_BATCH_SIZE
BatchSizeErrorOffByOne(urls) ==
    IF Len(urls) = 0
    THEN HttpError(HTTP_400_BAD_REQUEST, "At least one image URL is required")
    ELSE IF Len(urls) >= MAX_BATCH_SIZE
    THEN HttpError(HTTP_400_BAD_REQUEST, "Maximum 10 images allowed per batch request")
    ELSE NoResponse

\* lines 66-76 of remove_backgrounds_batch: the 400 raised by the length
\* checks, or NoResponse when the batch passes
BatchSizeError(urls) ==
    IF Len(urls) = 0
    THEN HttpError(HTTP_400_BAD_REQUEST, "At least one image URL is required")
    ELSE IF Len(urls) > MAX_BATCH_SIZE
    THEN HttpError(HTTP_400_BAD_REQUEST, "Maximum 10 images allowed per batch request")
    ELSE NoResponse

----------------------------------------------------------------------------
(* app/routers/background_remover.py: remove_backgrounds_batch *)

Items == 1..Len(image_urls)

\* a slot of the gathered list that no task has filled yet
Pending == <<<<>>, None>>

\* results collected in completion order, as asyncio.as_completed would
StoreResultInCompletionOrder(slots, i, outcome) ==
    LET free == {k \in DOMAIN slots : slots[k] = Pending}
    IN  [slots EXCEPT ![SetMin(free)] = outcome]

\* results kept under the URL: the outcome goes to the slot of the first
\* input that has the URL of the outcome
StoreResultByUrl(slots, i, outcome) ==
    LET first == SetMin({k \in DOMAIN slots : image_urls[k] = outcome[1]})
    IN  [slots EXCEPT ![first] = outcome]

\* asyncio.gather: the value a task returns lands at the task's own position
StoreResult(slots, i, outcome) == [slots EXCEPT ![i] = outcome]

\* a failure that takes the unfinished siblings down with it
OnItemExceptionCancelsSiblings(slots, i, url) ==
    [k \in DOMAIN slots |->
        IF k = i THEN <<url, None>>
        ELSE IF slots[k] = Pending THEN <<image_urls[k], None>>
        ELSE slots[k]]

\* except Exception: return url, None
OnItemException(slots, i, url) == StoreResult(slots, i, <<url, None>>)

\* a wait that resumes at the first task to return
GatherFirstCompleted(tasks) == \E i \in DOMAIN tasks : tasks[i] = "done"

\* await asyncio.gather(*tasks) resumes when every task has returned
GatherDone(tasks) == \A i \in DOMAIN tasks : tasks[i] = "done"

IsSuccess(pair) == pair[2] # None

\* a filter that gives up the whole batch when one item failed
SuccessfulResultsAllOrNothing(slots) ==
    IF \A k \in DOMAIN slots : IsSuccess(slots[k]) THEN slots ELSE <<>>

\* [(url, img) for url, img in results if img is not None]
SuccessfulResults(slots) == SelectSeq(slots, IsSuccess)

\* a handler without the check of lines 94-98
BatchResponseAlwaysZip(successful) ==
    [status |-> HTTP_200_OK, media_type |-> MEDIA_TYPE_ZIP,
     content |-> create_zip_archive(successful)]

\* lines 94-107: the 500 when nothing succeeded, else the ZIP response
BatchResponse(successful) ==
    IF successful = <<>>
    THEN HttpError(HTTP_500_INTERNAL_SERVER_ERROR,
                   "Failed to process any of the provided images")
    ELSE [status |-> HTTP_200_OK, media_type |-> MEDIA_TYPE_ZIP,
          content |-> create_zip_archive(successful)]

\* lines 94-101: create_zip_archive is called only past the 500 check
ZipCalled(successful) == successful # <<>>

\* lines 66-89: the size checks, then one task per URL; every task runs up to
\* its first await, the GET of fetch_image
StartBatch ==
    /\ endpoint = "sync"
    /\ pc = "received"
    /\ IF BatchSizeError(image_urls) # NoResponse
       THEN /\ response' = BatchSizeError(image_urls)
            /\ pc' = "responded"
            /\ UNCHANGED <<task, fetch_calls>>
       ELSE /\ pc' = "gathering"
            /\ task' = [i \in Items |-> "fetching"]
            /\ fetch_calls' = fetch_calls + Len(image_urls)
            /\ UNCHANGED response
    /\ UNCHANGED <<endpoint, image_urls, remote, image_bytes, processed_image,
                   results, remove_calls, zip_calls, deployments,
                   processed_images, archive>>
    /\ UNCHANGED engine_vars
    /\ UNCHANGED call_vars

\* lines 82-83 without the try: the coroutine goes on to remove_background
\* whatever fetch_image did
AfterFetchAlwaysRemoves(r) == "removing"

\* lines 82-86: where the coroutine of an item is after its fetch_image: at
\* its second await, the POST of remove_background, when fetch_image returned;
\* at its end, through the except clause, when fetch_image raised
AfterFetch(r) == IF r.raised = None THEN "removing" ELSE "done"

\* lines 82-86: item i's fetch_image returns or raises
FetchReturns(i) ==
    /\ pc = "gathering"
    /\ task[i] = "fetching"
    /\ \E reply \in FetchReplies(image_urls[i], remote) :
         LET r == fetch_image(reply)
         IN  /\ image_bytes' = [image_bytes EXCEPT ![i] = r.value]
             /\ task' = [task EXCEPT ![i] = AfterFetch(r)]
             /\ IF AfterFetch(r) = "removing"
                THEN /\ remove_calls' = remove_calls + 1
                     /\ UNCHANGED results
                ELSE /\ results' = OnItemException(results, i, image_urls[i])
                     /\ UNCHANGED remove_calls
    /\ UNCHANGED <<endpoint, image_urls, remote, pc, processed_image, response,
                   fetch_calls, zip_calls, deployments, processed_images,
                   archive>>
    /\ UNCHANGED engine_vars
    /\ UNCHANGED call_vars

\* lines 83-86: item i's remove_background returns or raises
RemoveReturns(i) ==
    /\ pc = "gathering"
    /\ task[i] = "removing"
    /\ \E reply \in SegmentReplies(image_bytes[i], remote) :
         LET r == remove_background(reply)
         IN  IF r.raised = None
             THEN /\ processed_image' = [processed_image EXCEPT ![i] = r.value]
                  /\ results' = StoreResult(results, i, <<image_urls[i], r.value>>)
             ELSE /\ results' = OnItemException(results, i, image_urls[i])
                  /\ UNCHANGED processed_image
    /\ task' = [task EXCEPT ![i] = "done"]
    /\ UNCHANGED <<endpoint, image_urls, remote, pc, image_bytes, response,
                   fetch_calls, remove_calls, zip_calls, deployments,
                   processed_images, archive>>
    /\ UNCHANGED engine_vars
    /\ UNCHANGED call_vars

\* lines 89-107: gather resumes the handler, which filters, zips and answers
Respond ==
    /\ pc = "gathering"
    /\ GatherDone(task)
    /\ LET successful == SuccessfulResults(results)
       IN  /\ response' = BatchResponse(successful)
           /\ zip_calls' = zip_calls + (IF ZipCalled(successful) THEN 1 ELSE 0)
    /\ pc' = "responded"
    /\ UNCHANGED <<endpoint, image_urls, remote, task, image_bytes,
                   processed_image, results, fetch_calls, remove_calls,
                   deployments, processed_images, archive>>
    /\ UNCHANGED engine_vars
    /\ UNCHANGED call_vars

----------------------------------------------------------------------------
(* app/routers/background_remover_parallel.py: start_batch_processing *)

\* the flow run ids the workflow engine hands out
FlowIds == {"flow-1", "flow-2"}

\* the keyword arguments of the run_deployment call of lines 57-65
DeploymentCall(urls) ==
    [name |-> "BATCH_BACKGROUND_REMOVAL_DEPLOYMENT/BATCH_BACKGROUND_REMOVAL_FLOW",
     parameters |-> [image_urls |-> urls, api_url |-> "api_url",
                     api_key |-> "api_key"],
     flow_run_name |-> <<"batch-processing", Len(urls), "images">>]

\* a body that reports the number of flow runs started instead of the
\* number of images
SubmissionAcceptedCountsRuns(flow_id, urls) ==
    [status |-> HTTP_200_OK, media_type |-> "application/json",
     content |-> [flow_id |-> flow_id, status |-> "RUNNING",
                  image_count |-> 1]]

\* lines 67-72: the body returned once run_deployment gave a flow run
SubmissionAccepted(flow_id, urls) ==
    [status |-> HTTP_200_OK, media_type |-> "application/json",
     content |-> [flow_id |-> flow_id, status |-> "RUNNING",
                  image_count |-> Len(urls)]]

\* a submission handler that forgot the upper limit
SubmissionSizeErrorNoUpperLimit(urls) ==
    IF Len(urls) = 0
    THEN HttpError(HTTP_400_BAD_REQUEST, "At least one image URL is required")
    ELSE NoResponse

\* lines 40-50: the length checks of the submission endpoint: the 400 raised,
\* or NoResponse when the batch passes
SubmissionSizeError(urls) ==
    IF Len(urls) = 0
    THEN HttpError(HTTP_400_BAD_REQUEST, "At least one image URL is required")
    ELSE IF Len(urls) > MAX_BATCH_SIZE
    THEN HttpError(HTTP_400_BAD_REQUEST, "Maximum 10 images allowed per batch request")
    ELSE NoResponse

\* lines 40-65: the size checks, then the await of run_deployment
StartBatchProcessing ==
    /\ endpoint = "async"
    /\ pc = "received"
    /\ IF SubmissionSizeError(image_urls) # NoResponse
       THEN /\ response' = SubmissionSizeError(image_urls)
            /\ pc' = "responded"
            /\ UNCHANGED deployments
       ELSE /\ pc' = "submitting"
            /\ deployments' = Append(deployments, DeploymentCall(image_urls))
            /\ UNCHANGED response
    /\ UNCHANGED <<endpoint, image_urls, remote, task, image_bytes,
                   processed_image, results, fetch_calls, remove_calls,
                   zip_calls, processed_images, archive>>
    /\ UNCHANGED engine_vars
    /\ UNCHANGED call_vars

\* lines 57-72: run_deployment returns a flow run, or raises and the request
\* fails with the framework's 500
RunDeploymentReturns ==
    /\ endpoint = "async"
    /\ pc = "submitting"
    /\ \/ \E id \in FlowIds : response' = SubmissionAccepted(id, image_urls)
       \/ /\ remote = "flaky"
          /\ response' = HttpError(HTTP_500_INTERNAL_SERVER_ERROR,
                                   "Internal Server Error")
    /\ pc' = "responded"
    /\ UNCHANGED <<endpoint, image_urls, remote, task, image_bytes,
                   processed_image, results, fetch_calls, remove_calls,
                   zip_calls, deployments, processed_images, archive>>
    /\ UNCHANGED engine_vars
    /\ UNCHANGED call_vars

----------------------------------------------------------------------------
(* workflows/flows/background_remover.py: the flow run inside the workflow
   engine *)

\* "error is None" of a task's return value: no message
NoError == <<>>

\* the flow run id of the one flow run the engine holds
TheFlowId == "flow-1"

\* no flow run has been created
NoFlowRun == [id |-> "", state |-> "NONE", result |-> <<>>]

\* lines 44: f"Failed to process {image_url}: {str(e)}"
ErrorMsg(url, r) ==
    <<"Failed to process ">> \o url \o <<": ", r.raised, " ">> \o ToStr(r.status)

\* lines 31-34: client.get and raise_for_status, without a content-type test
FlowFetch(reply) ==
    IF reply.failed THEN Raised("RequestError", 0)
    ELSE IF RaisesForStatus(reply.status)
    THEN Raised("HTTPStatusError", reply.status)
    ELSE Returned(reply.content)

\* lines 29-41 without the except clause of lines 43-46: an exception leaves
\* the task body, and the run of the body ends FAILED
remove_background_single_imageRaises(url, fetch_reply, segment_reply) ==
    LET fetched == FlowFetch(fetch_reply)
        removed == remove_background(segment_reply)
    IN  IF fetched.raised # None \/ removed.raised # None
        THEN [state |-> "FAILED", value |-> <<>>]
        ELSE [state |-> "COMPLETED",
              value |-> <<<<url, removed.value, NoError>>>>]

\* lines 29-46: the task run a call of the task body ends in. Every exception
\* is caught and turned into a returned tuple, so the task run is COMPLETED
\* with (url, bytes, None) or with (url, None, error_msg).
remove_background_single_image(url, fetch_reply, segment_reply) ==
    LET fetched == FlowFetch(fetch_reply)
        removed == remove_background(segment_reply)
    IN  [state |-> "COMPLETED",
         value |-> IF fetched.raised # None
                   THEN <<<<url, None, ErrorMsg(url, fetched)>>>>
                   ELSE IF removed.raised # None
                   THEN <<<<url, None, ErrorMsg(url, removed)>>>>
                   ELSE <<<<url, removed.value, NoError>>>>]

\* line 9, retries=3 of the task decorator: a task run whose body raised is
\* run again while it has retries left, and is FAILED after the last one
TASK_RETRIES == 3

\* lines 31-38 seen from outside: the task run after one more run of the body
\* that fetched fetch_reply. The POST is issued iff the GET did not raise.
AfterBody(run, fetch_reply) ==
    LET posted == FlowFetch(fetch_reply).raised = None
    IN  [run EXCEPT !.fetches = @ + 1,
                    !.posts = IF posted THEN @ + 1 ELSE @,
                    !.sent = IF posted
                             THEN <<fetch_reply.content_type,
                                    fetch_reply.content>>
                             ELSE @]

\* the engine's handling of one run of the task body (line 9): a body that
\* returned completes the task run with its value; a body that raised leaves
\* it RUNNING for the next retry, or FAILED when none is left
AfterAttempt(run, body, fetch_reply) ==
    LET counted == AfterBody(run, fetch_reply)
    IN  IF body.state = "FAILED" /\ run.fetches < TASK_RETRIES
        THEN counted
        ELSE [counted EXCEPT !.state = body.state, !.value = body.value]

\* a task run the engine has created and not finished
\* fetches and posts count the GETs (line 32) and the segment POSTs (line 38)
\* its body has issued; sent is <<content-type, content>> of the fetched
\* response it posted last, <<>> before any POST
TaskRunning == [state |-> "RUNNING", value |-> <<>>, fetches |-> 0,
                posts |-> 0, sent |-> <<>>]

\* a task run that ended without a return value (the worker was lost, the
\* run was cancelled): task_future.result() raises for it
TaskCrashed == [state |-> "FAILED", value |-> <<>>, fetches |-> 0,
                posts |-> 0, sent |-> <<>>]

\* lines 97-100 without the append: a task-level exception leaves no entry
OnTaskExceptionDropped(failed) == failed

\* lines 97-100: a task-level exception is recorded under the url "unknown"
OnTaskException(failed) ==
    Append(failed, [url |-> <<"u","n","k","n","o","w","n">>,
                    error |-> <<"task run failed">>])

\* lines 106-113: the dictionary the flow returns
FlowSummary(urls, successful, failed) ==
    [total_images |-> Len(urls),
     successful_count |-> Len(successful),
     failed_count |-> Len(failed),
     successful_results |-> successful,
     failed_results |-> failed,
     processing_complete |-> TRUE]

\* a flow whose final state follows its items: FAILED when an item failed
FlowFinalStateFollowsItems(summary) ==
    IF summary.failed_count > 0 THEN "FAILED" ELSE "COMPLETED"

\* lines 106-113: the flow returns a plain dictionary, never a state, a
\* future or an exception, so the engine records the flow run as COMPLETED
\* whatever the dictionary holds
FlowFinalState(summary) == "COMPLETED"

\* the engine starts the flow run of an accepted submission
FlowStarts ==
    /\ endpoint = "flow"
    /\ flow_run.state = "SCHEDULED"
    /\ flow_run' = [flow_run EXCEPT !.state = "RUNNING"]
    /\ flow_pc' = "submitting"
    /\ UNCHANGED <<task_runs, awaited, successful_results, failed_results>>
    /\ polls' = <<>>
    /\ UNCHANGED handler_vars
    /\ UNCHANGED call_vars

\* lines 70-73: the list comprehension submits the task of the next URL
SubmitTask ==
    /\ endpoint = "flow"
    /\ flow_run.state = "RUNNING"
    /\ flow_pc = "submitting"
    /\ task_runs' = Append(task_runs, TaskRunning)
    /\ flow_pc' = IF Len(task_runs) + 1 = Len(image_urls) THEN "collecting"
                  ELSE "submitting"
    /\ UNCHANGED <<flow_run, awaited, successful_results, failed_results>>
    /\ polls' = <<>>
    /\ UNCHANGED handler_vars
    /\ UNCHANGED call_vars

\* lines 29-46: the task of item i runs to its end
TaskReturns(i) ==
    /\ endpoint = "flow"
    /\ flow_run.state = "RUNNING"
    /\ i \in 1..Len(task_runs)
    /\ task_runs[i].state = "RUNNING"
    /\ \E fetch_reply \in FetchReplies(image_urls[i], remote) :
         \E segment_reply \in
               SegmentReplies(IF FlowFetch(fetch_reply).raised = None
                              THEN FlowFetch(fetch_reply).value
                              ELSE ImageAt(image_urls[i]), remote) :
            task_runs' = [task_runs EXCEPT ![i] =
                AfterAttempt(task_runs[i],
                             remove_background_single_image(
                                 image_urls[i], fetch_reply, segment_reply),
                             fetch_reply)]
    /\ UNCHANGED <<flow_run, flow_pc, awaited, successful_results,
                   failed_results>>
    /\ polls' = <<>>
    /\ UNCHANGED handler_vars
    /\ UNCHANGED call_vars

\* the engine loses the task run of item i
TaskCrashes(i) ==
    /\ endpoint = "flow"
    /\ remote = "flaky"
    /\ flow_run.state = "RUNNING"
    /\ i \in 1..Len(task_runs)
    /\ task_runs[i].state = "RUNNING"
    /\ task_runs' = [task_runs EXCEPT ![i] = TaskCrashed]
    /\ UNCHANGED <<flow_run, flow_pc, awaited, successful_results,
                   failed_results>>
    /\ polls' = <<>>
    /\ UNCHANGED handler_vars
    /\ UNCHANGED call_vars

\* a flow that puts the newest success first
CollectSuccessFirst(successful, url, image) == <<<<url, image>>>> \o successful

\* lines 92-93: successful_results.append((url, image_bytes))
CollectSuccess(successful, url, image) == Append(successful, <<url, image>>)

\* lines 80-100: one round of the loop, once the awaited future is finished
AwaitTaskResult ==
    /\ endpoint = "flow"
    /\ flow_run.state = "RUNNING"
    /\ flow_pc = "collecting"
    /\ awaited <= Len(task_runs)
    /\ task_runs[awaited].state # "RUNNING"
    /\ IF task_runs[awaited].value = <<>>
       THEN /\ failed_results' = OnTaskException(failed_results)
            /\ UNCHANGED successful_results
       ELSE LET url == task_runs[awaited].value[1][1]
                image == task_runs[awaited].value[1][2]
                error == task_runs[awaited].value[1][3]
            IN  IF error = NoError /\ image # None
                THEN /\ successful_results' =
                            CollectSuccess(successful_results, url, image)
                     /\ UNCHANGED failed_results
                ELSE /\ failed_results' =
                            Append(failed_results, [url |-> url, error |-> error])
                     /\ UNCHANGED successful_results
    /\ awaited' = awaited + 1
    /\ UNCHANGED <<flow_run, task_runs, flow_pc>>
    /\ polls' = <<>>
    /\ UNCHANGED handler_vars
    /\ UNCHANGED call_vars

\* lines 102-113: the loop is over, the flow returns its summary and the
\* engine records the flow run as COMPLETED with that result
FlowReturns ==
    /\ endpoint = "flow"
    /\ flow_run.state = "RUNNING"
    /\ flow_pc = "collecting"
    /\ awaited = Len(image_urls) + 1
    /\ LET summary == FlowSummary(image_urls, successful_results,
                                  failed_results)
       IN  flow_run' = [flow_run EXCEPT !.state = FlowFinalState(summary),
                                        !.result = <<summary>>]
    /\ flow_pc' = "returned"
    /\ UNCHANGED <<task_runs, awaited, successful_results, failed_results>>
    /\ polls' = <<>>
    /\ UNCHANGED handler_vars
    /\ UNCHANGED call_vars

\* the engine loses the flow run itself
FlowCrashes ==
    /\ endpoint = "flow"
    /\ remote = "flaky"
    /\ flow_run.state = "RUNNING"
    /\ flow_run' = [flow_run EXCEPT !.state = "FAILED"]
    /\ flow_pc' = "crashed"
    /\ UNCHANGED <<task_runs, awaited, successful_results, failed_results>>
    /\ polls' = <<>>
    /\ UNCHANGED handler_vars
    /\ UNCHANGED call_vars

----------------------------------------------------------------------------
(* app/routers/background_remover_parallel.py: get_batch_status *)

\* a handler that cancels the flow run it finds running
AfterReadsCancelled(run) ==
    IF run.state = "RUNNING" THEN [run EXCEPT !.state = "CANCELLED"] ELSE run

\* get_batch_status lines 93-150, download_batch_results lines 191-209: the
\* flow run the engine holds after a handler's calls, which are
\* read_flow_run, read_task_runs and state.result() and no other
AfterReads(run) == run

\* the flow ids a caller may ask for: the flow run's, a well-formed id the
\* engine does not know, and a text that is not a UUID
PollIds == {"flow-1", "flow-2", "not-a-uuid"}

\* line 88: UUID(flow_id) returns for a well-formed id and raises ValueError
\* for any other text
IsUuid(flow_id) == flow_id \in FlowIds

\* where the engine's client may raise during a poll of flow_id ("none":
\* nowhere): only in a call the handler makes
Faults(flow_id, run, world) ==
    IF world = "healthy" \/ ~IsUuid(flow_id) THEN {"none"}
    ELSE IF flow_id # run.id THEN {"none", "read_flow_run"}
    ELSE IF run.state = "COMPLETED"
    THEN {"none", "read_flow_run", "read_task_runs", "result"}
    ELSE {"none", "read_flow_run", "read_task_runs"}

\* an exception that leaves the handler: the framework answers 500
Unhandled ==
    HttpError(HTTP_500_INTERNAL_SERVER_ERROR, "Internal Server Error")

\* state.is_completed() and state.is_failed() of a task run
TaskIsCompleted(t) == t.state = "COMPLETED"

\* a test that takes every task run that is not running for a failed one
TaskIsNotRunning(t) == t.state # "RUNNING"

TaskIsFailed(t) == t.state = "FAILED"

\* a percentage that takes no tasks for all tasks done
CompletionPercentageOfNoneIsFull(completed, total) ==
    IF total > 0 THEN (completed * 20000 + total) \div (2 * total) ELSE 10000

\* lines 137-140: round(completed / total * 100, 2), in hundredths of a percent
CompletionPercentage(completed, total) ==
    IF total > 0 THEN (completed * 20000 + total) \div (2 * total) ELSE 0

\* lines 107-118 and 132-141: the progress block
Progress(tasks) ==
    LET runs == 1..Len(tasks)
        total_tasks == Len(tasks)
        completed_tasks ==
            Cardinality({k \in runs : TaskIsCompleted(tasks[k])})
        successful_tasks ==
            Cardinality({k \in runs : TaskIsCompleted(tasks[k])
                                        /\ ~TaskIsFailed(tasks[k])})
        failed_tasks == Cardinality({k \in runs : TaskIsFailed(tasks[k])})
    IN  [total_tasks |-> total_tasks,
         completed_tasks |-> completed_tasks,
         successful_tasks |-> successful_tasks,
         failed_tasks |-> failed_tasks,
         completion_percentage |->
             CompletionPercentage(completed_tasks, total_tasks)]

\* lines 153-164: the "results" entry built from the flow's return value
ResultsEntry(result) ==
    [total_images |-> result.total_images,
     successful_count |-> result.successful_count,
     failed_count |-> result.failed_count,
     processing_complete |-> result.processing_complete,
     failed_urls |-> [k \in 1..Len(result.failed_results) |->
                         result.failed_results[k].url]]

\* a response_data that carries the counters of the previous poll along
response_dataAccumulating(flow_id, run, tasks) ==
    [flow_id |-> flow_id,
     status |-> run.state,
     is_running |-> run.state = "RUNNING",
     is_completed |-> run.state = "COMPLETED",
     is_failed |-> run.state = "FAILED",
     progress |-> [Progress(tasks) EXCEPT
                     !.total_tasks = @ + Len(polls)],
     start_time |-> IF run.state = "SCHEDULED" THEN None ELSE "start_time",
     end_time |-> IF run.state \in {"COMPLETED", "FAILED"} THEN "end_time"
                  ELSE None]

\* lines 121-146: the dictionary built for a flow run and its task runs
response_data(flow_id, run, tasks) ==
    [flow_id |-> flow_id,
     status |-> run.state,
     is_running |-> run.state = "RUNNING",
     is_completed |-> run.state = "COMPLETED",
     is_failed |-> run.state = "FAILED",
     progress |-> Progress(tasks),
     start_time |-> IF run.state = "SCHEDULED" THEN None ELSE "start_time",
     end_time |-> IF run.state \in {"COMPLETED", "FAILED"} THEN "end_time"
                  ELSE None]

\* a handler that asks for the result whatever the state of the flow run:
\* result() raises for a run that has none, and the except branch answers
WithResultsUnguarded(data, run, fault) ==
    IF fault = "result" \/ run.result = <<>>
    THEN data @@ [result_error |-> "Could not retrieve results"]
    ELSE data @@ [results |-> ResultsEntry(run.result[1])]

\* lines 148-167: what the handler adds for a completed flow run
WithResults(data, run, fault) ==
    IF data.is_completed /\ ~data.is_failed
    THEN IF fault = "result"
         THEN data @@ [result_error |-> "Could not retrieve results"]
         ELSE data @@ [results |-> ResultsEntry(run.result[1])]
    ELSE data

\* lines 87-169: the answer of a poll for flow_id, with the client raising at
\* the place fault names
get_batch_status(flow_id, fault, run, tasks) ==
    IF ~IsUuid(flow_id) THEN Unhandled
    ELSE IF fault = "read_flow_run" THEN Unhandled
    ELSE IF flow_id # run.id
    THEN HttpError(HTTP_404_NOT_FOUND, "Flow not found")
    ELSE IF fault = "read_task_runs" THEN Unhandled
    ELSE [status |-> HTTP_200_OK, media_type |-> "application/json",
          content |-> WithResults(response_data(flow_id, run, tasks), run,
                                  fault)]

\* GET /status/{flow_id}: the handler reads the engine and answers
GetBatchStatus ==
    /\ endpoint = "flow"
    /\ \E flow_id \in PollIds : \E fault \in Faults(flow_id, flow_run, remote) :
          LET poll == [flow_id |-> flow_id, fault |-> fault,
                       response |-> get_batch_status(flow_id, fault, flow_run,
                                                     task_runs)]
          IN  polls' = IF polls # <<>> /\ polls[Len(polls)].flow_id = flow_id
                       THEN <<polls[Len(polls)], poll>>
                       ELSE <<poll>>
    /\ flow_run' = AfterReads(flow_run)
    /\ UNCHANGED <<task_runs, flow_pc, awaited, successful_results,
                   failed_results>>
    /\ UNCHANGED handler_vars
    /\ UNCHANGED call_vars

----------------------------------------------------------------------------
(* app/routers/background_remover_parallel.py: download_batch_results *)

\* where the engine's client may raise during a download of flow_id: only in
\* a call the handler makes
DownloadFaults(flow_id, run, world) ==
    IF world = "healthy" \/ ~IsUuid(flow_id) THEN {"none"}
    ELSE IF flow_id # run.id THEN {"none", "read_flow_run"}
    ELSE IF run.state = "COMPLETED" THEN {"none", "read_flow_run", "result"}
    ELSE {"none", "read_flow_run"}

\* lines 241-244: f"{filename_prefix}batch_results_{successful_count}_of_{total_count}.zip"
DownloadFilename(successful_count, total_count) ==
    (IF successful_count < total_count THEN <<"partial_">> ELSE <<"complete_">>)
    \o <<"batch_results_">> \o ToStr(successful_count) \o <<"_of_">>
    \o ToStr(total_count) \o <<".zip">>

\* headers that never mark the download as partial
DownloadHeadersNeverPartial(flow_id, successful_count, total_count) ==
    [content_disposition |->
         <<"attachment; filename=">>
         \o DownloadFilename(successful_count, total_count),
     x_flow_id |-> flow_id,
     x_total_images |-> ToStr(total_count),
     x_successful_images |-> ToStr(successful_count),
     x_is_partial |-> "false"]

\* lines 246-252: the headers of the download
DownloadHeaders(flow_id, successful_count, total_count) ==
    [content_disposition |->
         <<"attachment; filename=">>
         \o DownloadFilename(successful_count, total_count),
     x_flow_id |-> flow_id,
     x_total_images |-> ToStr(total_count),
     x_successful_images |-> ToStr(successful_count),
     x_is_partial |-> IF successful_count < total_count THEN "true" ELSE "false"]

\* lines 219-258 without the test of lines 227-231: an archive is built
\* from whatever the result holds
DownloadOfAnything(flow_id, result) ==
    [status |-> HTTP_200_OK, media_type |-> MEDIA_TYPE_ZIP,
     content |-> create_zip_archive(result.successful_results),
     headers |-> DownloadHeaders(flow_id, Len(result.successful_results),
                                 result.total_images)]

\* lines 219-258: the answer built from the result of a completed flow run
DownloadOf(flow_id, result) ==
    IF result.successful_results = <<>>
    THEN HttpError(HTTP_404_NOT_FOUND, "No successfully processed images found")
    ELSE [status |-> HTTP_200_OK, media_type |-> MEDIA_TYPE_ZIP,
          content |-> create_zip_archive(result.successful_results),
          headers |-> DownloadHeaders(flow_id, Len(result.successful_results),
                                      result.total_images)]

\* a download that answers a running flow run with the archive of nothing
download_batch_resultsPartial(flow_id, fault, run) ==
    IF ~IsUuid(flow_id) THEN Unhandled
    ELSE IF fault = "read_flow_run" THEN Unhandled
    ELSE IF flow_id # run.id
    THEN HttpError(HTTP_404_NOT_FOUND, "Flow not found")
    ELSE IF run.state \notin {"COMPLETED", "RUNNING"}
    THEN HttpError(HTTP_400_BAD_REQUEST,
                   "Flow has not completed or is not running. No results available.")
    ELSE IF run.state = "RUNNING"
    THEN [status |-> HTTP_200_OK, media_type |-> MEDIA_TYPE_ZIP,
          content |-> create_zip_archive(<<>>),
          headers |-> DownloadHeaders(flow_id, 0, 0)]
    ELSE IF fault = "result" THEN Unhandled
    ELSE DownloadOf(flow_id, run.result[1])

\* lines 185-258: the answer to a download of flow_id, with the client
\* raising at the place fault names
download_batch_results(flow_id, fault, run) ==
    IF ~IsUuid(flow_id) THEN Unhandled
    ELSE IF fault = "read_flow_run" THEN Unhandled
    ELSE IF flow_id # run.id
    THEN HttpError(HTTP_404_NOT_FOUND, "Flow not found")
    ELSE IF run.state \notin {"COMPLETED", "RUNNING"}
    THEN HttpError(HTTP_400_BAD_REQUEST,
                   "Flow has not completed or is not running. No results available.")
    ELSE IF run.state = "RUNNING"
    THEN HttpError(HTTP_202_ACCEPTED,
                   "Flow is still running. Please check status endpoint for progress.")
    ELSE IF fault = "result" THEN Unhandled
    ELSE DownloadOf(flow_id, run.result[1])

\* lines 186-234: the calls the handler makes on its way to that answer:
\* read_flow_run for a well-formed id (line 191), flow_state.result() for a
\* completed flow run (line 209), create_zip_archive for a result with a
\* success (line 234)
DownloadCalls(flow_id, fault, run) ==
    IF ~IsUuid(flow_id) THEN {}
    ELSE IF fault = "read_flow_run" \/ flow_id # run.id
            \/ run.state # "COMPLETED"
    THEN {"read_flow_run"}
    ELSE IF fault = "result" \/ run.result[1].successful_results = <<>>
    THEN {"read_flow_run", "result"}
    ELSE {"read_flow_run", "result", "create_zip_archive"}

\* GET /download/{flow_id}: the handler reads the engine and answers. One
\* download is recorded per state of the engine.
DownloadBatchResults ==
    /\ endpoint = "flow"
    /\ polls = <<>>
    /\ \E flow_id \in PollIds :
         \E fault \in DownloadFaults(flow_id, flow_run, remote) :
            polls' = <<[flow_id |-> flow_id, fault |-> fault,
                        calls |-> DownloadCalls(flow_id, fault, flow_run),
                        response |-> download_batch_results(flow_id, fault,
                                                            flow_run)]>>
    /\ flow_run' = AfterReads(flow_run)
    /\ UNCHANGED <<task_runs, flow_pc, awaited, successful_results,
                   failed_results>>
    /\ UNCHANGED handler_vars
    /\ UNCHANGED call_vars

----------------------------------------------------------------------------
(* The results poll over several flow ids: POST .../remove-backgrounds/results
   with BatchResultsRequest, answered with BatchImageResponse. Its handler is
   not part of the sources; it is modelled from the poll contract of the
   specification (section 4.3) and from the fields of BatchImageResponse. *)

\* ProcessingResult for one flow id: a lookup failure for an id that is
\* malformed or unknown, an error entry when the engine's client raises, and
\* otherwise what the state of the flow run says; success only for a flow run
\* that is completed
HandleOutcome(flow_id, faulty, run) ==
    IF ~IsUuid(flow_id) \/ flow_id # run.id
    THEN [success |-> FALSE, error |-> "lookup failed", state |-> "UNKNOWN"]
    ELSE IF faulty
    THEN [success |-> FALSE, error |-> "transport error", state |-> "UNKNOWN"]
    ELSE IF run.state = "COMPLETED"
    THEN [success |-> TRUE, error |-> None, state |-> run.state]
    ELSE IF run.state = "FAILED"
    THEN [success |-> FALSE, error |-> "flow run failed", state |-> run.state]
    ELSE [success |-> FALSE, error |-> None, state |-> run.state]

\* a poll that counts every queried id as a success
get_batch_resultsCountsAll(flow_ids, faulty, run) ==
    IF flow_ids = <<>>
    THEN HttpError(HTTP_400_BAD_REQUEST, "At least one flow ID is required")
    ELSE [status |-> HTTP_200_OK, media_type |-> "application/json",
          content |->
            [total_count |-> Len(flow_ids),
             success_count |-> Len(flow_ids),
             results |-> [id \in {flow_ids[k] : k \in 1..Len(flow_ids)} |->
                             HandleOutcome(id, id \in faulty, run)]]]

\* a poll that answers an empty list like any other list
get_batch_resultsAcceptsEmpty(flow_ids, faulty, run) ==
    LET ids == {flow_ids[k] : k \in 1..Len(flow_ids)}
        outcomes == [id \in ids |-> HandleOutcome(id, id \in faulty, run)]
    IN  [status |-> HTTP_200_OK, media_type |-> "application/json",
         content |->
           [total_count |-> Len(flow_ids),
            success_count |-> Cardinality({id \in ids : outcomes[id].success}),
            results |-> outcomes]]

\* the answer to a poll over flow_ids, the client raising for the ids in faulty
get_batch_results(flow_ids, faulty, run) ==
    IF flow_ids = <<>>
    THEN HttpError(HTTP_400_BAD_REQUEST, "At least one flow ID is required")
    ELSE LET ids == {flow_ids[k] : k \in 1..Len(flow_ids)}
             outcomes == [id \in ids |-> HandleOutcome(id, id \in faulty, run)]
         IN  [status |-> HTTP_200_OK, media_type |-> "application/json",
              content |->
                [total_count |-> Len(flow_ids),
                 success_count |->
                     Cardinality({id \in ids : outcomes[id].success}),
                 results |-> outcomes]]

\* the flow runs the poll asks the engine for: none for an empty list, which
\* is refused first, and otherwise one read per well-formed id
EngineReads(flow_ids) ==
    IF flow_ids = <<>> THEN {}
    ELSE {flow_ids[k] : k \in {j \in 1..Len(flow_ids) : IsUuid(flow_ids[j])}}

\* the lists of flow ids a caller asks for: each id at most once
HandleLists ==
    UNION {{ids \in [1..n -> PollIds] :
               \A a, b \in 1..n : a # b => ids[a] # ids[b]} : n \in 0..MaxHandles}

\* the results poll: the handler reads the engine and answers. One poll is
\* recorded per state of the engine; the client can raise only for an id the
\* handler looks up.
GetBatchResults ==
    /\ endpoint = "flow"
    /\ polls = <<>>
    /\ \E flow_ids \in HandleLists :
         \E faulty \in SUBSET {flow_ids[k] : k \in 1..Len(flow_ids)} :
            /\ \A id \in faulty : IsUuid(id)
            /\ remote = "healthy" => faulty = {}
            /\ faulty \subseteq EngineReads(flow_ids)
            /\ polls' = <<[flow_ids |-> flow_ids, faulty |-> faulty,
                           reads |-> EngineReads(flow_ids),
                           response |-> get_batch_results(flow_ids, faulty,
                                                          flow_run)]>>
    /\ UNCHANGED <<flow_run, task_runs, flow_pc, awaited, successful_results,
                   failed_results>>
    /\ UNCHANGED handler_vars
    /\ UNCHANGED call_vars

----------------------------------------------------------------------------
(* A direct call of create_zip_archive, as the helper's test makes it *)

CreateZipArchive ==
    /\ endpoint = "archive"
    /\ pc = "received"
    /\ archive' = create_zip_archive(processed_images)
    /\ pc' = "responded"
    /\ UNCHANGED <<endpoint, image_urls, remote, task, image_bytes,
                   processed_image, results, response, fetch_calls,
                   remove_calls, zip_calls, deployments, processed_images>>
    /\ UNCHANGED engine_vars
    /\ UNCHANGED call_vars

----------------------------------------------------------------------------
(* app/clients/redacted_service.py, and direct calls of the remote operations
   as their tests make them *)

\* no direct call is made
NoCall == [fn |-> "none", reply |-> HttpReply(TRUE, 0, <<>>, None)]

\* the call has not returned
NotCalled == [raised |-> "not called", status |-> 0, value |-> None]

\* lines 26-47: RedactedServiceClient.remove_background, applied to what
\* client.post gave: the httpx exceptions leave the method as they are
redacted_remove_background(reply) ==
    IF reply.failed THEN Raised("RequestError", 0)
    ELSE IF RaisesForStatus(reply.status)
    THEN Raised("HTTPStatusError", reply.status)
    ELSE Returned(reply.content)

\* lines 49-70: RedactedServiceClient.remove_background_sync, the same with
\* the blocking client
remove_background_sync(reply) ==
    IF reply.failed THEN Raised("RequestError", 0)
    ELSE IF RaisesForStatus(reply.status)
    THEN Raised("HTTPStatusError", reply.status)
    ELSE Returned(reply.content)

\* await fetch_image(url)
FetchImage ==
    /\ endpoint = "call"
    /\ call.fn = "fetch_image"
    /\ call_result = NotCalled
    /\ call_result' = fetch_image(call.reply)
    /\ UNCHANGED <<call, polls>>
    /\ UNCHANGED handler_vars
    /\ UNCHANGED <<flow_run, task_runs, flow_pc, awaited, successful_results,
                   failed_results>>

\* await PhotoroomClient.remove_background(image_bytes)
RemoveBackground ==
    /\ endpoint = "call"
    /\ call.fn = "PhotoroomClient.remove_background"
    /\ call_result = NotCalled
    /\ call_result' = remove_background(call.reply)
    /\ UNCHANGED <<call, polls>>
    /\ UNCHANGED handler_vars
    /\ UNCHANGED <<flow_run, task_runs, flow_pc, awaited, successful_results,
                   failed_results>>

\* await RedactedServiceClient.remove_background(image_bytes)
RedactedRemoveBackground ==
    /\ endpoint = "call"
    /\ call.fn = "RedactedServiceClient.remove_background"
    /\ call_result = NotCalled
    /\ call_result' = redacted_remove_background(call.reply)
    /\ UNCHANGED <<call, polls>>
    /\ UNCHANGED handler_vars
    /\ UNCHANGED <<flow_run, task_runs, flow_pc, awaited, successful_results,
                   failed_results>>

\* RedactedServiceClient.remove_background_sync(image_bytes)
RemoveBackgroundSync ==
    /\ endpoint = "call"
    /\ call.fn = "RedactedServiceClient.remove_background_sync"
    /\ call_result = NotCalled
    /\ call_result' = remove_background_sync(call.reply)
    /\ UNCHANGED <<call, polls>>
    /\ UNCHANGED handler_vars
    /\ UNCHANGED <<flow_run, task_runs, flow_pc, awaited, successful_results,
                   failed_results>>

----------------------------------------------------------------------------
(* Requests *)

\* every batch of at most MaxBatch URLs, repeated URLs included
SmallBatches == UNION {[1..n -> Urls] : n \in 0..MaxBatch}

\* the batch of n URLs that cycles through UrlList
LongBatch(n) == [i \in 1..n |-> UrlList[((i - 1) % Len(UrlList)) + 1]]

\* the batches around the size limit
LongBatches == {LongBatch(n) : n \in MAX_BATCH_SIZE..(MAX_BATCH_SIZE + MaxOver)}

\* URLs whose last segments sanitise to the same text, or are empty, or carry
\* path parameters
UrlTilde == <<"h","t","t","p",":","/","/","e","/","a","~",".","j","p","g">>

UrlDir == <<"h","t","t","p",":","/","/","e","/">>

UrlParams == <<"h","t","t","p",":","/","/","e","/","c",";","v","=","1">>

ArchiveUrls == {UrlA, UrlB, UrlTilde, UrlDir, UrlParams}

\* the (url, bytes) pairs a caller may pass, pairs without bytes included
ArchivePairs == ArchiveUrls \X {None, "PNG_A", "PNG_B"}

\* every list of n such pairs
ArchiveInputs(n) == [1..n -> ArchivePairs]

\* the state of a handler that has just received its request
Received(ep, urls, world, pairs) ==
    /\ endpoint = ep
    /\ image_urls = urls
    /\ remote = world
    /\ pc = "received"
    /\ task = [i \in 1..Len(urls) |-> "idle"]
    /\ image_bytes = [i \in 1..Len(urls) |-> None]
    /\ processed_image = [i \in 1..Len(urls) |-> None]
    /\ results = [i \in 1..Len(urls) |-> Pending]
    /\ response = NoResponse
    /\ fetch_calls = 0
    /\ remove_calls = 0
    /\ zip_calls = 0
    /\ deployments = <<>>
    /\ processed_images = pairs
    /\ archive = <<>>
    /\ flow_run = NoFlowRun
    /\ task_runs = <<>>
    /\ flow_pc = "none"
    /\ awaited = 1
    /\ successful_results = <<>>
    /\ failed_results = <<>>
    /\ polls = <<>>
    /\ call = NoCall
    /\ call_result = NotCalled

\* a synchronous batch request, against remote services that may fail
Init == \E urls \in SmallBatches : Received("sync", urls, "flaky", <<>>)

Next ==
    \/ StartBatch
    \/ \E i \in Items : FetchReturns(i)
    \/ \E i \in Items : RemoveReturns(i)
    \/ Respond

Spec == Init /\ [][Next]_vars

\* the step by which the handler resumes after the gather: under Next it is
\* a Respond step, and it is enabled exactly when Respond is
HandlerResumes ==
    /\ pc = "gathering"
    /\ GatherDone(task)
    /\ pc' = "responded"

\* every remote call returns or fails (each has a timeout of DEFAULT_TIMEOUT),
\* and the event loop runs whatever is ready
FairSpec ==
    /\ Init
    /\ [][Next]_vars
    /\ WF_vars(StartBatch)
    /\ WF_vars(\E i \in Items : FetchReturns(i))
    /\ WF_vars(\E i \in Items : RemoveReturns(i))
    /\ WF_pc(HandlerResumes)

\* synchronous batches around MAX_BATCH_SIZE, against services that answer
InitLimit ==
    \E urls \in LongBatches \cup {<<>>} : Received("sync", urls, "healthy", <<>>)

SpecLimit == InitLimit /\ [][Next]_vars

\* an asynchronous submission of any batch, against an engine that may fail
InitAsync ==
    \E urls \in SmallBatches \cup LongBatches :
        Received("async", urls, "flaky", <<>>)

NextAsync ==
    \/ StartBatchProcessing
    \/ RunDeploymentReturns

SpecAsync == InitAsync /\ [][NextAsync]_vars

\* a direct create_zip_archive call on any list of pairs
InitArchive ==
    \E n \in 0..MaxPairs :
        \E pairs \in ArchiveInputs(n) :
            Received("archive", <<>>, "healthy", pairs)

NextArchive == CreateZipArchive

SpecArchive == InitArchive /\ [][NextArchive]_vars

\* the batches a flow run is started for
FlowBatches == {SubSeq(UrlList, 1, n) : n \in 1..MaxTasks}

\* the state right after start_batch_processing answered: the engine holds one
\* scheduled flow run for the batch
Submitted(urls, world) ==
    /\ endpoint = "flow"
    /\ image_urls = urls
    /\ remote = world
    /\ pc = "responded"
    /\ task = [i \in 1..Len(urls) |-> "idle"]
    /\ image_bytes = [i \in 1..Len(urls) |-> None]
    /\ processed_image = [i \in 1..Len(urls) |-> None]
    /\ results = [i \in 1..Len(urls) |-> Pending]
    /\ response = SubmissionAccepted(TheFlowId, urls)
    /\ fetch_calls = 0
    /\ remove_calls = 0
    /\ zip_calls = 0
    /\ deployments = <<DeploymentCall(urls)>>
    /\ processed_images = <<>>
    /\ archive = <<>>
    /\ flow_run = [id |-> TheFlowId, state |-> "SCHEDULED", result |-> <<>>]
    /\ task_runs = <<>>
    /\ flow_pc = "scheduled"
    /\ awaited = 1
    /\ successful_results = <<>>
    /\ failed_results = <<>>
    /\ polls = <<>>
    /\ call = NoCall
    /\ call_result = NotCalled

\* a flow run executing in an engine that may lose runs, polled by a caller
InitFlow == \E urls \in FlowBatches : Submitted(urls, "flaky")

NextFlow ==
    \/ FlowStarts
    \/ SubmitTask
    \/ \E i \in Items : TaskReturns(i)
    \/ \E i \in Items : TaskCrashes(i)
    \/ AwaitTaskResult
    \/ FlowReturns
    \/ FlowCrashes
    \/ GetBatchStatus

SpecFlow == InitFlow /\ [][NextFlow]_vars

\* the flow run alone, nobody polling
NextFlowRun ==
    \/ FlowStarts
    \/ SubmitTask
    \/ \E i \in Items : TaskReturns(i)
    \/ \E i \in Items : TaskCrashes(i)
    \/ AwaitTaskResult
    \/ FlowReturns
    \/ FlowCrashes

\* the flow's loop resumes whenever the future it awaits is finished, and the
\* flow returns once the loop is over
FairSpecFlow ==
    /\ InitFlow
    /\ [][NextFlowRun]_vars
    /\ WF_vars(AwaitTaskResult)
    /\ WF_vars(FlowReturns)

\* the same flow run, polled through the results poll
NextResults ==
    \/ FlowStarts
    \/ SubmitTask
    \/ \E i \in Items : TaskReturns(i)
    \/ \E i \in Items : TaskCrashes(i)
    \/ AwaitTaskResult
    \/ FlowReturns
    \/ FlowCrashes
    \/ GetBatchResults

SpecResults == InitFlow /\ [][NextResults]_vars

\* the same flow run, with a caller asking for the archive
NextDownload ==
    \/ FlowStarts
    \/ SubmitTask
    \/ \E i \in Items : TaskReturns(i)
    \/ \E i \in Items : TaskCrashes(i)
    \/ AwaitTaskResult
    \/ FlowReturns
    \/ FlowCrashes
    \/ DownloadBatchResults

SpecDownload == InitFlow /\ [][NextDownload]_vars

\* the batches of the flow run that is asked for both its status and its
\* archive
PollBatches == {SubSeq(UrlList, 1, n) : n \in 1..(MaxTasks - 1)}

InitPolls == \E urls \in PollBatches : Submitted(urls, "flaky")

\* that flow run, with callers asking for its status and for its archive in
\* any order
NextPolls ==
    \/ FlowStarts
    \/ SubmitTask
    \/ \E i \in Items : TaskReturns(i)
    \/ \E i \in Items : TaskCrashes(i)
    \/ AwaitTaskResult
    \/ FlowReturns
    \/ FlowCrashes
    \/ GetBatchStatus
    \/ DownloadBatchResults

SpecPolls == InitPolls /\ [][NextPolls]_vars

ImageJpeg == <<"i","m","a","g","e","/","j","p","e","g">>

\* content types that only resemble an image type
ImageNoSlash == <<"i","m","a","g","e">>

ImageUpper == <<"I","m","a","g","e","/","p","n","g">>

\* the HTTP exchanges a remote may answer a direct call with: success and
\* non-success statuses, each with image, non-image and missing content
\* types, and the transport failure
CallReplies ==
    {HttpReply(FALSE, st, ct, body) :
        st \in {199, 200, 204, 299, 300, 301, 400, 402, 404, 500},
        ct \in {ImagePng, ImageJpeg, ImageNoSlash, ImageUpper, TextHtml, <<>>},
        body \in {"RAW_A", "HTML"}}
    \cup {HttpReply(TRUE, 0, <<>>, None)}

CallFunctions ==
    {"fetch_image", "PhotoroomClient.remove_background",
     "RedactedServiceClient.remove_background",
     "RedactedServiceClient.remove_background_sync"}

\* the state in which fn is called and the remote is about to answer reply
Called(fn, reply) ==
    /\ endpoint = "call"
    /\ image_urls = <<>>
    /\ remote = "flaky"
    /\ pc = "received"
    /\ task = <<>>
    /\ image_bytes = <<>>
    /\ processed_image = <<>>
    /\ results = <<>>
    /\ response = NoResponse
    /\ fetch_calls = 0
    /\ remove_calls = 0
    /\ zip_calls = 0
    /\ deployments = <<>>
    /\ processed_images = <<>>
    /\ archive = <<>>
    /\ flow_run = NoFlowRun
    /\ task_runs = <<>>
    /\ flow_pc = "none"
    /\ awaited = 1
    /\ successful_results = <<>>
    /\ failed_results = <<>>
    /\ polls = <<>>
    /\ call = [fn |-> fn, reply |-> reply]
    /\ call_result = NotCalled

InitCalls == \E fn \in CallFunctions : \E reply \in CallReplies : Called(fn, reply)

NextCalls ==
    \/ FetchImage
    \/ RemoveBackground
    \/ RedactedRemoveBackground
    \/ RemoveBackgroundSync

SpecCalls == InitCalls /\ [][NextCalls]_vars

\* the states read_task_runs may report for a task run, none included
TaskStates ==
    {None, "PENDING", "RUNNING", "COMPLETED", "FAILED", "CANCELLED", "CRASHED"}

\* every list of at most MaxRuns task runs in any combination of states
TaskRunLists ==
    UNION {[1..n -> [state : TaskStates]] : n \in 0..MaxRuns}

\* lines 106-118: the handler computes the progress of the task runs it read
AnalyzeProgress ==
    /\ endpoint = "call"
    /\ call.fn = "get_batch_status.progress"
    /\ call_result = NotCalled
    /\ call_result' = Progress(call.reply)
    /\ UNCHANGED call
    /\ UNCHANGED handler_vars
    /\ UNCHANGED engine_vars

InitProgress ==
    \E tasks \in TaskRunLists : Called("get_batch_status.progress", tasks)

NextProgress == AnalyzeProgress

SpecProgress == InitProgress /\ [][NextProgress]_vars

----------------------------------------------------------------------------
(* Properties *)

\* the j-th smallest element of a set of positions
Nth(S, j) == CHOOSE i \in S : Cardinality({k \in S : k <= i}) = j

\* the items whose own fetch and own removal both succeeded
Succeeded == {i \in Items : image_bytes[i] # None /\ processed_image[i] # None}

\* the batch passed the size checks
Accepted == Len(image_urls) >= 1 /\ Len(image_urls) <= MAX_BATCH_SIZE

\* C1: fault isolation in the synchronous batch. Whatever the other items do,
\* the slot of an item is untouched until the item's own task returns, and it
\* then holds the item's own outcome: its own processed bytes when its own
\* fetch and removal succeeded, no bytes when one of them failed.
C1_FaultIsolation ==
    endpoint = "sync" =>
        \A i \in Items :
            /\ task[i] # "done" => results[i] = Pending
            /\ task[i] = "done" =>
                 /\ results[i] = <<image_urls[i], processed_image[i]>>
                 /\ i \in Succeeded =>
                      results[i][2] = Segmented(ImageAt(image_urls[i]))
                 /\ i \notin Succeeded => results[i][2] = None

\* a batch of three in which exactly the middle item failed and the other
\* two have their own processed bytes
C1_Witness ==
    /\ endpoint = "sync"
    /\ pc = "responded"
    /\ Len(image_urls) = 3
    /\ results[2][2] = None
    /\ results[1][2] = Segmented(ImageAt(image_urls[1]))
    /\ results[3][2] = Segmented(ImageAt(image_urls[3]))
    /\ results[1][2] # results[3][2]

\* C2: an accepted batch of N URLs yields exactly N outcomes and the i-th
\* outcome belongs to the i-th URL, in whatever order the items finish: a
\* filled slot always carries the URL of its own position, and once every
\* task has returned no slot is left unfilled.
C2_OutcomesInInputOrder ==
    (endpoint = "sync" /\ Accepted) =>
        /\ Len(results) = Len(image_urls)
        /\ \A i \in Items : results[i] # Pending => results[i][1] = image_urls[i]
        /\ (pc = "responded" \/ GatherDone(task)) =>
               \A i \in Items : results[i] # Pending

\* a later item has finished before an earlier one with a different URL
C2_Witness ==
    /\ endpoint = "sync"
    /\ Accepted
    /\ \E i, j \in Items :
         /\ i < j
         /\ image_urls[i] # image_urls[j]
         /\ task[i] # "done"
         /\ task[j] = "done"

\* C3: partial failure never discards successes. When at least one item of an
\* accepted batch succeeded, the answer is a 200 ZIP whose entries are exactly
\* the processed bytes of the successful items, in input order.
C3_SuccessesKept ==
    (endpoint = "sync" /\ pc = "responded" /\ Succeeded # {}) =>
        /\ response.status = HTTP_200_OK
        /\ response.media_type = MEDIA_TYPE_ZIP
        /\ Len(response.content) = Cardinality(Succeeded)
        /\ \A j \in 1..Len(response.content) :
               response.content[j].data = processed_image[Nth(Succeeded, j)]

\* a batch answered after its first item failed and two later ones succeeded
C3_Witness ==
    /\ endpoint = "sync"
    /\ pc = "responded"
    /\ Len(image_urls) = 3
    /\ Succeeded = {2, 3}
    /\ image_urls[2] # image_urls[3]

\* C4: an accepted batch in which every item failed is answered with a 500,
\* create_zip_archive is not called, and no 200 carries an empty archive.
C4_AllFailedIs500 ==
    (endpoint = "sync" /\ pc = "responded" /\ Accepted) =>
        /\ Succeeded = {} =>
              /\ response.status = HTTP_500_INTERNAL_SERVER_ERROR
              /\ zip_calls = 0
        /\ response.status = HTTP_200_OK => response.content # <<>>

\* a batch of two answered after both items failed, one at each stage
C4_Witness ==
    /\ endpoint = "sync"
    /\ pc = "responded"
    /\ Len(image_urls) = 2
    /\ Succeeded = {}
    /\ image_bytes[1] = None
    /\ image_bytes[2] # None

\* C5: the synchronous endpoint answers a batch of 0 URLs and a batch of more
\* than MAX_BATCH_SIZE URLs with a 400 and never issues a fetch or a removal
\* call for it; a batch of exactly MAX_BATCH_SIZE URLs is accepted.
C5_SizeLimits ==
    endpoint = "sync" =>
        /\ ~Accepted =>
              /\ fetch_calls = 0
              /\ remove_calls = 0
              /\ \A i \in Items : task[i] = "idle"
              /\ pc \in {"received", "responded"}
              /\ pc = "responded" => response.status = HTTP_400_BAD_REQUEST
        /\ (Len(image_urls) = MAX_BATCH_SIZE /\ pc # "received") =>
              /\ response.status # HTTP_400_BAD_REQUEST
              /\ fetch_calls = MAX_BATCH_SIZE

\* a batch of MAX_BATCH_SIZE + 1 URLs has been answered
C5_Witness ==
    /\ endpoint = "sync"
    /\ Len(image_urls) = MAX_BATCH_SIZE + 1
    /\ pc = "responded"
    /\ response.status = HTTP_400_BAD_REQUEST
    /\ fetch_calls = 0

\* C6: the submission endpoint answers a batch of 0 URLs and a batch of more
\* than MAX_BATCH_SIZE URLs with a 400, and run_deployment is never invoked
\* for it.
C6_SubmissionSizeLimits ==
    (endpoint = "async" /\ ~Accepted) =>
        /\ deployments = <<>>
        /\ pc \in {"received", "responded"}
        /\ pc = "responded" => response.status = HTTP_400_BAD_REQUEST

\* a submission of MAX_BATCH_SIZE + 1 URLs has been answered
C6_Witness ==
    /\ endpoint = "async"
    /\ Len(image_urls) = MAX_BATCH_SIZE + 1
    /\ pc = "responded"
    /\ response.status = HTTP_400_BAD_REQUEST
    /\ deployments = <<>>

\* C7: the synchronous batch answers only after every item has reached a
\* terminal outcome, never while a fetch or a removal call is in flight; and
\* when every remote call returns or fails, an answer is eventually produced.
C7_AnswersAfterAllItems ==
    /\ [](pc = "responded" =>
            /\ \A i \in Items : task[i] \notin {"fetching", "removing"}
            /\ Accepted => \A i \in Items : task[i] = "done" /\ results[i] # Pending)
    /\ <>(pc = "responded")

\* a batch of three has been answered after all three items finished
C7_Witness ==
    /\ endpoint = "sync"
    /\ pc = "responded"
    /\ Len(image_urls) = 3
    /\ \A i \in Items : task[i] = "done"
    /\ response.status = HTTP_200_OK

\* the positions of the pairs that carry bytes
WithPayload == {k \in 1..Len(processed_images) : processed_images[k][2] # None}

\* C8: create_zip_archive on n pairs of which k carry bytes yields exactly k
\* entries, each name ending in ".png", each content identical to the bytes
\* of the pair it was built from; a pair without bytes contributes no entry.
C8_ArchiveEntries ==
    (endpoint = "archive" /\ pc = "responded") =>
        /\ Len(archive) = Cardinality(WithPayload)
        /\ \A j \in 1..Len(archive) :
              /\ EndsWith(archive[j].name, <<".","p","n","g">>)
              /\ archive[j].data = processed_images[Nth(WithPayload, j)][2]

\* three pairs, the middle one without bytes, the other two with different bytes
C8_Witness ==
    /\ endpoint = "archive"
    /\ pc = "responded"
    /\ Len(processed_images) = 3
    /\ WithPayload = {1, 3}
    /\ processed_images[1][2] # processed_images[3][2]
    /\ Len(archive) = 2

\* C9: no two entries of one archive have the same file name, also when a
\* URL is repeated, when URLs differ only in their query string and when the
\* last path segments become equal once the unsafe characters are stripped.
C9_UniqueFilenames ==
    (endpoint = "archive" /\ pc = "responded") =>
        \A a, b \in 1..Len(archive) : a # b => archive[a].name # archive[b].name

\* an archive built from the same URL twice and from a URL whose last
\* segment equals theirs only after sanitising
C9_Witness ==
    /\ endpoint = "archive"
    /\ pc = "responded"
    /\ Len(archive) = 3
    /\ processed_images[1][1] = UrlA
    /\ processed_images[2][1] = UrlA
    /\ processed_images[3][1] = UrlTilde

\* C10: the index in a file name is the 1-based position of the entry within
\* the payload-bearing subset: the j-th entry of every archive is named
\* image_j_..., also when a pair without bytes precedes a pair with bytes.
C10_IndexWithinSuccessfulSubset ==
    (endpoint = "archive" /\ pc = "responded") =>
        \A j \in 1..Len(archive) :
            StartsWith(archive[j].name,
                       <<"i","m","a","g","e","_">> \o ToStr(j) \o <<"_">>)

\* the characters the claim allows in a written file name
SafeChars == Letters \cup {Digits[k] : k \in 1..10} \cup {".", "_", "-"}

\* the last path segment of the URL of the pair at position k, or "image"
SegmentOrDefault(k) ==
    LET segment == LastSegment(UrlPath(processed_images[k][1]))
    IN  IF segment = <<>> THEN <<"i","m","a","g","e">> ELSE segment

\* C11: every file name written by create_zip_archive is image_{i}_{segment}.png,
\* i the 1-based position of the pair, segment the last path segment of its
\* URL without the query string, or "image" when that segment is empty, with
\* the unsafe characters removed; only alphanumeric characters and '.', '_'
\* and '-' occur in it.
C11_SafeFilenames ==
    (endpoint = "archive" /\ pc = "responded") =>
        \A j \in 1..Len(archive) :
            LET k == Nth(WithPayload, j)
                name == archive[j].name
            IN  /\ \A n \in 1..Len(name) : name[n] \in SafeChars
                /\ name = <<"i","m","a","g","e","_">> \o ToStr(k) \o <<"_">>
                          \o SelectSeq(SegmentOrDefault(k),
                                       LAMBDA c : c \in SafeChars)
                          \o <<".","p","n","g">>

\* an archive whose entries come from a URL with a query string, a URL with
\* an unsafe character in its last segment and a URL with an empty last segment
C11_Witness ==
    /\ endpoint = "archive"
    /\ pc = "responded"
    /\ Len(archive) = 3
    /\ processed_images[1][1] = UrlA
    /\ processed_images[2][1] = UrlTilde
    /\ processed_images[3][1] = UrlDir
    /\ archive[1].name = <<"i","m","a","g","e","_","1","_","a",".","j","p","g",
                           ".","p","n","g">>
    /\ archive[2].name = <<"i","m","a","g","e","_","2","_","a",".","j","p","g",
                           ".","p","n","g">>
    /\ archive[3].name = <<"i","m","a","g","e","_","3","_","i","m","a","g","e",
                           ".","p","n","g">>

\* the job handles an accepted submission answers with
ReturnedHandles == {response.content.flow_id}

\* C12: submission is 1:1 with items: an accepted submission of N URLs has
\* invoked run_deployment exactly N times, the i-th call for the i-th URL
\* alone, and answers with N job handles.
C12_OneSubmissionPerItem ==
    (endpoint = "async" /\ pc = "responded" /\ response.status = HTTP_200_OK) =>
        /\ Len(deployments) = Len(image_urls)
        /\ \A i \in 1..Len(deployments) :
              deployments[i].parameters.image_urls = <<image_urls[i]>>
        /\ Cardinality(ReturnedHandles) = Len(image_urls)

\* C13: a run_deployment call that fails does not fail the submission: the
\* submit operation still returns, so a batch that passed the size checks is
\* never answered with an error.
C13_SubmissionFailureContained ==
    (endpoint = "async" /\ pc = "responded" /\ Accepted) =>
        response.status = HTTP_200_OK

\* the status polls the handler answered with a body
Answered == {k \in 1..Len(polls) : polls[k].response.status = HTTP_200_OK}

\* the task runs whose item was fetched and segmented
SucceededTasks ==
    {i \in 1..Len(task_runs) :
        /\ task_runs[i].state = "COMPLETED"
        /\ task_runs[i].value[1][3] = NoError
        /\ task_runs[i].value[1][2] # None}

\* C14: the success count of every status poll equals the number of items
\* whose processing had completed successfully at that moment; a running item
\* and an item whose fetch or removal failed are not counted.
C14_SuccessCountIsSnapshot ==
    \A k \in Answered :
        polls[k].response.content.progress.successful_tasks
            = Cardinality(SucceededTasks)

\* C15: a status response never presents unfinished work as failed: while
\* the flow run is scheduled or running the response says not completed and
\* not failed and carries neither results nor an error, and a failed flow run
\* is reported as failed.
C15_RunningIsNotFailed ==
    \A k \in Answered :
        LET content == polls[k].response.content
        IN  /\ flow_run.state \in {"SCHEDULED", "RUNNING"} =>
                  /\ content.status = flow_run.state
                  /\ content.is_running = (flow_run.state = "RUNNING")
                  /\ ~content.is_completed
                  /\ ~content.is_failed
                  /\ "result_error" \notin DOMAIN content
                  /\ "results" \notin DOMAIN content
            /\ flow_run.state = "FAILED" => content.is_failed /\ ~content.is_running

\* a running flow run with one finished and one unfinished task has been polled
C15_Witness ==
    /\ endpoint = "flow"
    /\ flow_run.state = "RUNNING"
    /\ Len(task_runs) = 2
    /\ task_runs[1].state = "COMPLETED"
    /\ task_runs[2] = TaskRunning
    /\ Answered # {}

\* C16: a poll with an unknown or malformed flow id, the engine answering, is
\* not aborted: it is answered with a body that carries a failed outcome and
\* a lookup error.
C16_UnknownHandleIsAnOutcome ==
    \A k \in 1..Len(polls) :
        (polls[k].flow_id # flow_run.id /\ polls[k].fault = "none") =>
            /\ polls[k].response.status = HTTP_200_OK
            /\ "error" \in DOMAIN polls[k].response.content

\* C17: a poll during which the engine's client raises (in read_flow_run, in
\* read_task_runs or in the result retrieval) is still answered with a body,
\* and the body carries an error entry.
C17_TransportErrorIsAnEntry ==
    \A k \in 1..Len(polls) :
        polls[k].fault # "none" =>
            /\ polls[k].response.status = HTTP_200_OK
            /\ "result_error" \in DOMAIN polls[k].response.content

C19_SummaryCounts ==
    flow_run.state = "COMPLETED" =>
        LET summary == flow_run.result[1]
        IN  /\ summary.successful_count = Len(summary.successful_results)
            /\ summary.failed_count = Len(summary.failed_results)
            /\ summary.successful_count + summary.failed_count
                  = summary.total_images
            /\ summary.total_images = Len(image_urls)

\* a flow of two items has returned after one item succeeded and the task
\* run of the other was lost
C19_Witness ==
    /\ endpoint = "flow"
    /\ flow_run.state = "COMPLETED"
    /\ Len(image_urls) = 2
    /\ \E i, j \in 1..2 : /\ i \in SucceededTasks
                          /\ task_runs[j] = TaskCrashed
    /\ flow_run.result[1].successful_count = 1
    /\ flow_run.result[1].failed_count = 1

C21_SubmissionAnswersRunning ==
    (endpoint = "async" /\ pc = "responded" /\ response.status = HTTP_200_OK) =>
        /\ response.content.status = "RUNNING"
        /\ response.content.status \notin {"COMPLETED", "FAILED", "CRASHED",
                                           "CANCELLED"}
        /\ response.content.image_count = Len(image_urls)

\* a submission of three URLs has been accepted
C21_Witness ==
    /\ endpoint = "async"
    /\ pc = "responded"
    /\ Len(image_urls) = 3
    /\ response.status = HTTP_200_OK
    /\ response.content.image_count = 3

\* C22: partial results are downloadable while items are pending: a download
\* of a flow run that is still running, the engine answering, returns a ZIP
\* archive (of the images completed so far).
C22_PartialDownloadWhileRunning ==
    \A p \in 1..Len(polls) :
        (endpoint = "flow" /\ flow_run.state = "RUNNING"
            /\ polls[p].flow_id = flow_run.id /\ polls[p].fault = "none") =>
            /\ polls[p].response.status = HTTP_200_OK
            /\ polls[p].response.media_type = MEDIA_TYPE_ZIP

\* C23: in the synchronous batch each result slot is written exactly once, by
\* the task of its own input position: a step changes at most one slot, the
\* slot was unwritten, it is the slot of the task that finishes in that step
\* and it receives that input's URL; a slot is written if and only if its
\* task has finished. This holds also when a URL occurs twice in the batch.
C23_EachSlotWrittenOnce ==
    /\ [](endpoint = "sync" =>
            \A i \in Items : (task[i] = "done") <=> (results[i] # Pending))
    /\ [][endpoint = "sync" =>
            \A i \in Items :
                results'[i] # results[i] =>
                    /\ results[i] = Pending
                    /\ task[i] # "done"
                    /\ task'[i] = "done"
                    /\ results'[i][1] = image_urls[i]
                    /\ \A j \in Items \ {i} : results'[j] = results[j]]_vars

\* a batch with the same URL twice, whose two occurrences ended differently
C23_Witness ==
    /\ endpoint = "sync"
    /\ Len(image_urls) >= 2
    /\ image_urls[1] = image_urls[2]
    /\ task[1] = "done"
    /\ task[2] = "done"
    /\ results[1][2] = None
    /\ results[2][2] # None

\* the item operations of the synchronous batch that are awaiting a remote call
InFlight == {i \in Items : task[i] \in {"fetching", "removing"}}

\* C24: at every moment of a synchronous batch at most as many item
\* operations are in flight as the batch has inputs, and never more than
\* MAX_BATCH_SIZE; once the batch is accepted exactly one item operation has
\* been started per input, and none is started for a rejected batch.
C24_InFlightBounded ==
    endpoint = "sync" =>
        /\ Cardinality(InFlight) <= Len(image_urls)
        /\ Cardinality(InFlight) <= MAX_BATCH_SIZE
        /\ fetch_calls <= MAX_BATCH_SIZE
        /\ (pc # "received" /\ Accepted) => fetch_calls = Len(image_urls)
        /\ ~Accepted => fetch_calls = 0 /\ InFlight = {}

\* a batch of MAX_BATCH_SIZE URLs with all its item operations in flight
C24_Witness ==
    /\ endpoint = "sync"
    /\ Len(image_urls) = MAX_BATCH_SIZE
    /\ pc = "gathering"
    /\ Cardinality(InFlight) = MAX_BATCH_SIZE
    /\ fetch_calls = MAX_BATCH_SIZE

\* the reply has a success status
Is2xx(reply) == reply.status >= 200 /\ reply.status <= 299

\* the content type of the reply begins with "image/"
IsImageType(reply) ==
    /\ Len(reply.content_type) >= 6
    /\ SubSeq(reply.content_type, 1, 6) = <<"i","m","a","g","e","/">>

\* C25: fetch_image returns bytes, the body of the response, only for a
\* success status with a content type beginning with "image/"; a non-success
\* status raises the HTTP status error whatever the content type; a success
\* status with a non-image or missing content type raises a 400; no failure
\* returns bytes.
C25_FetchImage ==
    (endpoint = "call" /\ call.fn = "fetch_image" /\ call_result # NotCalled) =>
        LET reply == call.reply
        IN  /\ (call_result.raised = None) <=>
                  (~reply.failed /\ Is2xx(reply) /\ IsImageType(reply))
            /\ call_result.raised = None => call_result.value = reply.content
            /\ (~reply.failed /\ ~Is2xx(reply)) =>
                  /\ call_result.raised = "HTTPStatusError"
                  /\ call_result.status = reply.status
            /\ (~reply.failed /\ Is2xx(reply) /\ ~IsImageType(reply)) =>
                  /\ call_result.raised = "HTTPException"
                  /\ call_result.status = HTTP_400_BAD_REQUEST
            /\ call_result.raised # None => call_result.value = None

\* fetch_image has raised the status error for a 404 that carries HTML
C25_Witness ==
    /\ endpoint = "call"
    /\ call.fn = "fetch_image"
    /\ call.reply.status = 404
    /\ call.reply.content_type = TextHtml
    /\ call_result.raised = "HTTPStatusError"
    /\ call_result.status = 404

\* C26: content fetched with a content type that does not begin with "image/"
\* is never posted to the background-removal service by a task of the flow:
\* whatever a task run has posted came with an image content type.
C26_NonImageNeverSubmitted ==
    endpoint = "flow" =>
        \A i \in 1..Len(task_runs) :
            task_runs[i].sent # <<>> =>
                IsImageType([content_type |-> task_runs[i].sent[1]])

\* C30: within one flow run every image URL is fetched at most once and sent
\* to the background-removal service at most once: no task run is retried,
\* and a task run that ended after a failed fetch or a failed removal is
\* COMPLETED with an error tuple after exactly one fetch.
C30_NoRetries ==
    endpoint = "flow" =>
        \A i \in 1..Len(task_runs) :
            /\ task_runs[i].fetches <= 1
            /\ task_runs[i].posts <= 1
            /\ task_runs[i].posts <= task_runs[i].fetches
            /\ (task_runs[i].state = "RUNNING") => (task_runs[i].fetches = 0)
            /\ (task_runs[i].fetches = 1) =>
                   /\ task_runs[i].state = "COMPLETED"
                   /\ task_runs[i].value[1][1] = image_urls[i]

\* one task run ended after a fetch that raised, another after a removal that
\* raised; each is COMPLETED with an error tuple after a single fetch
C30_Witness ==
    /\ endpoint = "flow"
    /\ Len(task_runs) = 2
    /\ \A i \in 1..2 : /\ task_runs[i].state = "COMPLETED"
                       /\ task_runs[i].value[1][2] = None
                       /\ task_runs[i].value[1][3] # NoError
                       /\ task_runs[i].fetches = 1
    /\ task_runs[1].posts = 0
    /\ task_runs[2].posts = 1

\* the three operations that post an image to the background-removal service
RemovalFunctions ==
    {"PhotoroomClient.remove_background",
     "RedactedServiceClient.remove_background",
     "RedactedServiceClient.remove_background_sync"}

\* C27: remove_background and remove_background_sync return the body of the
\* upstream response unchanged for a 2xx status and only then; a non-2xx
\* status makes them fail with an error that carries the upstream status, a
\* transport failure with a connectivity error; no failure returns bytes.
C27_RemoveBackground ==
    (endpoint = "call" /\ call.fn \in RemovalFunctions
        /\ call_result # NotCalled) =>
        LET reply == call.reply
        IN  /\ (call_result.raised = None) <=> (~reply.failed /\ Is2xx(reply))
            /\ call_result.raised = None => call_result.value = reply.content
            /\ (~reply.failed /\ ~Is2xx(reply)) =>
                  /\ call_result.raised \in {"HTTPException", "HTTPStatusError"}
                  /\ call_result.status = reply.status
            /\ reply.failed =>
                  \/ /\ call_result.raised = "HTTPException"
                     /\ call_result.status = HTTP_500_INTERNAL_SERVER_ERROR
                  \/ call_result.raised = "RequestError"
            /\ call_result.raised # None => call_result.value = None

\* the Photoroom client has failed with the 402 of the upstream, whose body
\* it did not return
C27_Witness ==
    /\ endpoint = "call"
    /\ call.fn = "PhotoroomClient.remove_background"
    /\ call.reply.status = 402
    /\ call.reply.content = "RAW_A"
    /\ call_result.raised = "HTTPException"
    /\ call_result.status = 402
    /\ call_result.value = None

Fetched == {i \in Items : image_bytes[i] # None}

\* C29: per item of a synchronous batch the two stages are ordered and run
\* at most once. An item is at its removal call only after its own fetch
\* returned bytes, and the service answers for exactly those bytes; an
\* accepted batch has issued one fetch per item and one removal call per
\* item whose fetch has succeeded; an item enters the removal stage only from
\* its fetch stage, and never leaves the finished stage. A batch of N items
\* that all succeed has issued exactly N fetches and N removal calls.
C29_StagesOrdered ==
    /\ [](endpoint = "sync" =>
            /\ \A i \in Items :
                 /\ task[i] = "removing" => i \in Fetched
                 /\ task[i] \in {"idle", "fetching"} => i \notin Fetched
                 /\ i \in Fetched => image_bytes[i] = ImageAt(image_urls[i])
                 /\ processed_image[i] # None =>
                       /\ i \in Fetched
                       /\ processed_image[i] = Segmented(image_bytes[i])
            /\ remove_calls = Cardinality(Fetched)
            /\ pc \in {"gathering", "responded"} /\ Accepted =>
                   fetch_calls = Len(image_urls)
            /\ (pc = "responded" /\ Accepted /\ Succeeded = Items) =>
                   /\ fetch_calls = Len(image_urls)
                   /\ remove_calls = Len(image_urls))
    /\ [][endpoint = "sync" =>
             /\ fetch_calls' >= fetch_calls
             /\ remove_calls' >= remove_calls
             /\ \A i \in Items :
                  /\ (task'[i] = "fetching" /\ task[i] # "fetching") =>
                        task[i] = "idle"
                  /\ (task'[i] = "removing" /\ task[i] # "removing") =>
                        /\ task[i] = "fetching"
                        /\ remove_calls' = remove_calls + 1
                  /\ task[i] = "done" => task'[i] = "done"]_vars

\* a batch of three different URLs has been answered after three fetches and
\* three removal calls, every item having succeeded
C29_Witness ==
    /\ endpoint = "sync"
    /\ pc = "responded"
    /\ Len(image_urls) = 3
    /\ Succeeded = Items
    /\ fetch_calls = 3
    /\ remove_calls = 3
    /\ Cardinality({image_urls[i] : i \in Items}) = 3

\* every task of the batch has been submitted and has terminated
AllTasksTerminated ==
    /\ Len(task_runs) = Len(image_urls)
    /\ \A i \in 1..Len(task_runs) : task_runs[i].state # "RUNNING"

\* C31: the flow terminates normally once every submitted task has
\* terminated: unless the engine loses the flow run, it then returns, and a
\* flow that has returned is COMPLETED with processing_complete true whatever
\* its items did; a step in which an item fails or a task-level exception is
\* recorded leaves the state of the flow run as it was.
C31_FlowTerminatesNormally ==
    /\ [](flow_pc = "returned" =>
            /\ flow_run.state = "COMPLETED"
            /\ flow_run.result[1].processing_complete
            /\ flow_run.result[1].failed_results = failed_results)
    /\ [][(task_runs' # task_runs \/ failed_results' # failed_results) =>
            flow_run' = flow_run]_vars
    /\ ((flow_run.state = "RUNNING" /\ AllTasksTerminated)
            ~> (flow_pc = "returned" \/ flow_pc = "crashed"))

\* a flow of two items has returned after the fetch of one item failed and
\* the task run of the other was lost
C31_Witness ==
    /\ endpoint = "flow"
    /\ flow_pc = "returned"
    /\ flow_run.state = "COMPLETED"
    /\ Len(image_urls) = 2
    /\ successful_results = <<>>
    /\ Len(failed_results) = 2
    /\ \E i, j \in 1..2 : /\ task_runs[i] = TaskCrashed
                          /\ task_runs[j].state = "COMPLETED"

\* the input positions the loop of the flow has collected, with and without
\* a success
CollectedSucceeded == {i \in SucceededTasks : i < awaited}

CollectedFailed == {i \in 1..(awaited - 1) : i \notin SucceededTasks}

\* C32: on the workflow path successful_results holds the successes in the
\* order of the input URLs, whatever the order in which the tasks finished:
\* its k-th pair is the URL and the bytes of the k-th input position that
\* succeeded; every failure is recorded under the URL of its input position,
\* a lost task run under "unknown"; and the entries of a downloaded archive
\* are the successes in that same order.
C32_ResultsInInputOrder ==
    endpoint = "flow" =>
        /\ Len(successful_results) = Cardinality(CollectedSucceeded)
        /\ \A k \in 1..Len(successful_results) :
              LET i == Nth(CollectedSucceeded, k)
              IN  successful_results[k] =
                      <<image_urls[i], task_runs[i].value[1][2]>>
        /\ Len(failed_results) = Cardinality(CollectedFailed)
        /\ \A k \in 1..Len(failed_results) :
              LET i == Nth(CollectedFailed, k)
              IN  failed_results[k].url =
                      IF task_runs[i].value = <<>>
                      THEN <<"u","n","k","n","o","w","n">>
                      ELSE image_urls[i]
        /\ \A p \in 1..Len(polls) :
              polls[p].response.status = HTTP_200_OK =>
                  LET entries == polls[p].response.content
                  IN  /\ Len(entries) = Cardinality(SucceededTasks)
                      /\ \A k \in 1..Len(entries) :
                            LET i == Nth(SucceededTasks, k)
                            IN  /\ entries[k].data = task_runs[i].value[1][2]
                                /\ entries[k].name = Filename(k - 1, image_urls[i])

\* the archive of a flow of two URLs that both succeeded has been downloaded:
\* its entries are those of the first and of the second URL, in that order
C32_Witness ==
    /\ endpoint = "flow"
    /\ flow_run.state = "COMPLETED"
    /\ Len(image_urls) = 2
    /\ Len(successful_results) = 2
    /\ Len(polls) = 1
    /\ polls[1].response.status = HTTP_200_OK
    /\ polls[1].response.content[1].data = Segmented(ImageAt(image_urls[1]))
    /\ polls[1].response.content[2].data = Segmented(ImageAt(image_urls[2]))
    /\ polls[1].response.content[1].data # polls[1].response.content[2].data

OwnDownloads ==
    {p \in 1..Len(polls) :
        polls[p].flow_id = flow_run.id /\ polls[p].fault = "none"}

\* C34: a download of a completed flow run without a successful item is
\* answered with a 404 and never with an archive, empty or not; a download
\* of a completed flow run with k >= 1 successful items returns an archive
\* of exactly k entries.
C34_NoEmptyArchive ==
    (endpoint = "flow" /\ flow_run.state = "COMPLETED") =>
        \A p \in OwnDownloads :
            LET k == Cardinality(SucceededTasks)
            IN  /\ k = 0 => /\ polls[p].response.status = HTTP_404_NOT_FOUND
                            /\ polls[p].response.media_type # MEDIA_TYPE_ZIP
                            /\ "create_zip_archive" \notin polls[p].calls
                /\ k >= 1 => /\ polls[p].response.status = HTTP_200_OK
                             /\ polls[p].response.media_type = MEDIA_TYPE_ZIP
                             /\ Len(polls[p].response.content) = k
                             /\ "create_zip_archive" \in polls[p].calls

\* a flow of two items has completed without a success and its download has
\* been answered with 404
C34_Witness ==
    /\ endpoint = "flow"
    /\ flow_run.state = "COMPLETED"
    /\ Len(image_urls) = 2
    /\ SucceededTasks = {}
    /\ flow_run.result[1].failed_count = 2
    /\ OwnDownloads # {}
    /\ polls[1].response.status = HTTP_404_NOT_FOUND

\* the number a header value is the decimal text of
HeaderNumber(text) == CHOOSE n \in 0..(MAX_BATCH_SIZE + 1) : ToStr(n) = text

\* C35: in every archive download the disposition agrees with the counts:
\* X-Successful-Images is the number of entries of the archive, it is at most
\* X-Total-Images, which is the number of URLs of the batch, and the download
\* is marked partial (X-Is-Partial "true", file name partial_...) exactly
\* when the successful count is smaller than the total, and complete
\* (X-Is-Partial "false", file name complete_...) otherwise.
C35_DispositionMatchesCounts ==
    \A p \in 1..Len(polls) :
        (endpoint = "flow" /\ polls[p].response.media_type = MEDIA_TYPE_ZIP) =>
            LET headers == polls[p].response.headers
                successful == HeaderNumber(headers.x_successful_images)
                total == HeaderNumber(headers.x_total_images)
                prefix == IF successful < total THEN "partial_" ELSE "complete_"
            IN  /\ headers.x_successful_images =
                       ToStr(Len(polls[p].response.content))
                /\ headers.x_total_images = ToStr(Len(image_urls))
                /\ successful <= total
                /\ headers.x_is_partial =
                       (IF successful < total THEN "true" ELSE "false")
                /\ headers.content_disposition =
                       <<"attachment; filename=", prefix, "batch_results_">>
                       \o ToStr(successful) \o <<"_of_">> \o ToStr(total)
                       \o <<".zip">>
                /\ headers.x_flow_id = polls[p].flow_id

\* the archive of a flow of two items of which one succeeded has been
\* downloaded, marked partial
C35_Witness ==
    /\ endpoint = "flow"
    /\ Len(polls) = 1
    /\ polls[1].response.media_type = MEDIA_TYPE_ZIP
    /\ Len(polls[1].response.content) = 1
    /\ polls[1].response.headers.x_total_images = <<"2">>
    /\ polls[1].response.headers.x_is_partial = "true"
    /\ polls[1].response.headers.content_disposition[2] = "partial_"

\* C36: after the submission the request side never acts on the submitted
\* work: a step in which a status poll or a download is answered leaves the
\* flow run, its task runs, the progress of the flow and the deployments that
\* were made as they were, however many polls are made and in whatever order.
C36_PollsOnlyRead ==
    [][(polls' # polls /\ polls' # <<>>) =>
          UNCHANGED <<flow_run, task_runs, flow_pc, awaited,
                      successful_results, failed_results, deployments>>]_vars

\* a running flow run with an unfinished task was asked for its archive and
\* then for its status, and is still running
C36_Witness ==
    /\ endpoint = "flow"
    /\ flow_run.state = "RUNNING"
    /\ Len(task_runs) = 1
    /\ task_runs[1].state = "RUNNING"
    /\ Len(polls) = 2
    /\ "calls" \in DOMAIN polls[1]
    /\ "calls" \notin DOMAIN polls[2]
    /\ polls[1].response.status = HTTP_202_ACCEPTED
    /\ polls[2].response.status = HTTP_200_OK

\* C37: a status poll may be made any number of times before the flow run is
\* terminal, also before any task run exists: answered while the flow run
\* has no task run, it reports 0 total, 0 completed, 0 successful and 0
\* failed tasks and a completion of 0, without an error entry; and a status
\* response carries a "results" section only when the flow run is COMPLETED.
C37_PollBeforeAnyTask ==
    \A k \in Answered :
        LET content == polls[k].response.content
        IN  /\ task_runs = <<>> =>
                  /\ content.progress.total_tasks = 0
                  /\ content.progress.completed_tasks = 0
                  /\ content.progress.successful_tasks = 0
                  /\ content.progress.failed_tasks = 0
                  /\ content.progress.completion_percentage = 0
                  /\ "result_error" \notin DOMAIN content
                  /\ "error" \notin DOMAIN content
            /\ "results" \in DOMAIN content =>
                  /\ flow_run.state = "COMPLETED"
                  /\ content.is_completed
                  /\ ~content.is_failed

\* a flow run that is scheduled and has no task run yet has been polled
\* twice, and both polls were answered
C37_Witness ==
    /\ endpoint = "flow"
    /\ flow_run.state = "SCHEDULED"
    /\ task_runs = <<>>
    /\ Len(polls) = 2
    /\ Answered = {1, 2}
    /\ polls[2].response.content.progress.total_tasks = 0
    /\ polls[2].response.content.progress.completion_percentage = 0

\* C38: the progress counters of a status response satisfy successful_tasks
\* <= completed_tasks <= total_tasks and completed_tasks + failed_tasks <=
\* total_tasks, for every combination of the states of the task runs, task
\* runs without a state included.
C38_ProgressCounters ==
    (endpoint = "call" /\ call.fn = "get_batch_status.progress"
        /\ call_result # NotCalled) =>
        /\ call_result.total_tasks = Len(call.reply)
        /\ call_result.successful_tasks <= call_result.completed_tasks
        /\ call_result.completed_tasks <= call_result.total_tasks
        /\ call_result.completed_tasks + call_result.failed_tasks
              <= call_result.total_tasks

\* the progress of three task runs, one completed, one failed and one
\* without a state
C38_Witness ==
    /\ endpoint = "call"
    /\ call.fn = "get_batch_status.progress"
    /\ Len(call.reply) = 3
    /\ {call.reply[k].state : k \in 1..3} = {"COMPLETED", "FAILED", None}
    /\ call_result # NotCalled
    /\ call_result.completed_tasks = 1
    /\ call_result.failed_tasks = 1
    /\ call_result.total_tasks = 3

====
